---------------------------- MODULE Spec2Model ----------------------------
(***************************************************************************)
(* A model of src/src/parser.js: the conversion of a CoffeeScript parse    *)
(* tree (the "upstream" tree, produced by csParse) into the normalized     *)
(* tree of decaffeinate-parser.                                            *)
(*                                                                         *)
(* The conversion is a pure function of the source text and the upstream   *)
(* tree.  The state machine draws a source and an upstream tree in Init    *)
(* and applies parse to them in one step.  The upstream parser is an       *)
(* external collaborator: its trees are inputs, and the spans it puts on   *)
(* the nodes are drawn from a bounded set of well-formed spans (start not  *)
(* after end, on lines that exist) and are not assumed to nest.            *)
(*                                                                         *)
(* JavaScript values are modelled as follows.                              *)
(*   - a string is a sequence of one-character strings;                    *)
(*   - an object is a record; an absent field is absent from the record;   *)
(*   - null is the record JSNull; a thrown exception is a record with a    *)
(*     field "throw", which every caller passes up unchanged;              *)
(*   - locationData is an object reference: the field ref is the identity  *)
(*     of the object (0 is the null reference), the other fields are its   *)
(*     contents.  Two different objects may have the same contents.        *)
(*   - the attributes object handed to makeNode is the sequence of its     *)
(*     entries in insertion order; an entry tells whether its value is a   *)
(*     node (or null), an array of nodes, or a scalar.                     *)
(***************************************************************************)
EXTENDS Integers, Sequences, FiniteSets, TLC

VARIABLES source, upstream, out, pc

vars == <<source, upstream, out, pc>>

(***************************************************************************)
(* Bounds of the model.                                                    *)
(***************************************************************************)
\* How many columns past the end of a line an upstream span may point to.
MaxOverrun == 1
\* The largest number of members of a class body.
MaxMembers == 2

(***************************************************************************)
(* JavaScript values                                                       *)
(***************************************************************************)
JSNull == [null |-> TRUE]

IsNull(v) == "null" \in DOMAIN v

Throw(msg) == [throw |-> msg]

IsThrow(v) == "throw" \in DOMAIN v

Min(a, b) == IF a < b THEN a ELSE b

Max(a, b) == IF a > b THEN a ELSE b

\* String.prototype.slice(a, b): a negative index counts from the end, both
\* indices are clamped to the string, and the result is empty when a >= b.
Slice(s, a, b) ==
    LET len  == Len(s)
        from == IF a < 0 THEN Max(len + a, 0) ELSE Min(a, len)
        to   == IF b < 0 THEN Max(len + b, 0) ELSE Min(b, len)
    IN  IF from >= to THEN << >> ELSE SubSeq(s, from + 1, to)

\* Whether str occurs in s at the 0-based index i.
OccursAt(s, str, i) ==
    /\ i >= 0
    /\ i + Len(str) <= Len(s)
    /\ \A k \in 1..Len(str) : s[i + k] = str[k]

\* String.prototype.indexOf(str, from): the first occurrence at or after
\* from, or -1.
IndexOf(s, str, from) ==
    LET start == Min(Max(from, 0), Len(s))
        hits  == {i \in start..Len(s) : OccursAt(s, str, i)}
    IN  IF hits = {} THEN -1 ELSE CHOOSE i \in hits : \A j \in hits : i <= j

\* String.prototype.lastIndexOf(str, from): the last occurrence at or before
\* from, or -1.
LastIndexOf(s, str, from) ==
    LET start == Min(Max(from, 0), Len(s))
        hits  == {i \in 0..start : OccursAt(s, str, i)}
    IN  IF hits = {} THEN -1 ELSE CHOOSE i \in hits : \A j \in hits : i >= j

(***************************************************************************)
(* The position mapper, ./util/lineColumnMapper (an external collaborator: *)
(* modelled from its contract).  Lines and columns are 0-based.            *)
(***************************************************************************)
\* The offsets at which the lines of s start.
LineOffsets(s) ==
    LET starts == {0} \cup {i \in 1..Len(s) : s[i] = "\n"}
    IN  [k \in 1..Cardinality(starts) |->
            CHOOSE o \in starts : Cardinality({p \in starts : p < o}) = k - 1]

mapper(line, column) == LineOffsets(source)[line + 1] + column

mapperInvert(offset) ==
    LET offs == LineOffsets(source)
        l    == CHOOSE k \in 1..Len(offs) :
                    /\ offs[k] <= offset
                    /\ \A j \in 1..Len(offs) : offs[j] <= offset => j <= k
    IN  [line |-> l - 1, column |-> offset - offs[l]]

(***************************************************************************)
(* Location algebra                                                        *)
(***************************************************************************)
NullLoc == [ref |-> 0, first_line |-> 0, first_column |-> 0,
            last_line |-> 0, last_column |-> 0]

\* The identity of a location object made during the conversion (by
\* mergeLocations and the two expansions): different from every upstream one.
FreshRef == 99

mergeLocations(left, right) ==
    LET first == IF left.first_line < right.first_line THEN left
                 ELSE IF left.first_line > right.first_line THEN right
                 ELSE IF left.first_column < right.first_column THEN left
                 ELSE right
        last  == IF left.last_line < right.last_line THEN right
                 ELSE IF left.last_line > right.last_line THEN left
                 ELSE IF left.last_column < right.last_column THEN right
                 ELSE left
    IN  [ref |-> FreshRef,
         first_line |-> first.first_line, first_column |-> first.first_column,
         last_line |-> last.last_line, last_column |-> last.last_column]

RECURSIVE locationContainingNodes(_)
locationContainingNodes(nodes) ==
    IF Len(nodes) = 0 THEN NullLoc
    ELSE IF Len(nodes) = 1 THEN nodes[1].locationData
    ELSE IF Len(nodes) = 2
        THEN mergeLocations(nodes[1].locationData, nodes[2].locationData)
    ELSE mergeLocations(nodes[1].locationData,
                        locationContainingNodes(Tail(nodes)))

expandLocationRightThrough(loc, string) ==
    LET offset == IndexOf(source, string,
                          mapper(loc.last_line, loc.last_column) + 1)
        newLoc == mapperInvert(offset + Len(string) - 1)
    IN  IF offset < 0 THEN Throw("unable to expand location: not followed")
        ELSE [ref |-> FreshRef,
              first_line |-> loc.first_line, first_column |-> loc.first_column,
              last_line |-> newLoc.line, last_column |-> newLoc.column]

expandLocationLeftThrough(loc, string) ==
    LET offset == LastIndexOf(source, string,
                              mapper(loc.first_line, loc.first_column))
        newLoc == mapperInvert(offset)
    IN  IF offset < 0 THEN Throw("unable to expand location: not preceded")
        ELSE [ref |-> FreshRef,
              first_line |-> newLoc.line, first_column |-> newLoc.column,
              last_line |-> loc.last_line, last_column |-> loc.last_column]


(***************************************************************************)
(* Literals                                                                *)
(***************************************************************************)
IsDigit(c) == c \in {"0", "1", "2", "3", "4", "5", "6", "7", "8", "9"}

IsDigits(s) == Len(s) > 0 /\ \A k \in 1..Len(s) : IsDigit(s[k])

DigitValue(c) ==
    CASE c = "0" -> 0 [] c = "1" -> 1 [] c = "2" -> 2 [] c = "3" -> 3
      [] c = "4" -> 4 [] c = "5" -> 5 [] c = "6" -> 6 [] c = "7" -> 7
      [] c = "8" -> 8 [] c = "9" -> 9

RECURSIVE DigitsValue(_)
DigitsValue(s) ==
    IF Len(s) = 0 THEN 0
    ELSE 10 * DigitsValue(SubSeq(s, 1, Len(s) - 1)) + DigitValue(s[Len(s)])

RECURSIVE StripTrailingZeros(_)
StripTrailingZeros(s) ==
    IF Len(s) > 0 /\ s[Len(s)] = "0"
        THEN StripTrailingZeros(SubSeq(s, 1, Len(s) - 1))
    ELSE s

\* /^\d+|(\d+)?\.\d+$/.test(value): the text starts with a digit, or it ends
\* with a dot followed by digits.
LooksNumeric(value) ==
    \/ Len(value) > 0 /\ IsDigit(value[1])
    \/ \E k \in 1..Len(value) :
          value[k] = "." /\ IsDigits(SubSeq(value, k + 1, Len(value)))

\* JSON.parse(value) of a text that LooksNumeric: a number (its integer part
\* and the digits of its fraction), or a SyntaxError.  Exponents are left out.
JSONParseNumber(value) ==
    LET dots  == {k \in 1..Len(value) : value[k] = "."}
        dot   == IF dots = {} THEN Len(value) + 1
                 ELSE CHOOSE k \in dots : \A j \in dots : k <= j
        whole == SubSeq(value, 1, dot - 1)
        frac  == SubSeq(value, dot + 1, Len(value))
        valid == /\ IsDigits(whole)
                 /\ Len(whole) > 1 => whole[1] # "0"
                 /\ dots # {} => IsDigits(frac)
    IN  IF valid
            THEN [num |-> DigitsValue(whole), frac |-> StripTrailingZeros(frac)]
        ELSE Throw("SyntaxError: JSON.parse")

\* typeof value === 'number' always holds of a parsed number;
\* Math.floor(value) === value when it has no fraction.
nodeTypeForLiteral(value) == IF value.frac = << >> THEN "Int" ELSE "Float"

\* ./util/parseLiteral (an external collaborator, modelled from its
\* contract): the text of a quoted literal, or not a string.
parseLiteral(value) ==
    IF /\ Len(value) >= 2
       /\ value[1] \in {"'", "\""}
       /\ value[Len(value)] = value[1]
        THEN [str |-> SubSeq(value, 2, Len(value) - 1)]
    ELSE [undefined |-> TRUE]

(***************************************************************************)
(* The node builder                                                        *)
(***************************************************************************)
\* One entry of the attributes object: kind is "node" (a node or null),
\* "list" (an array of nodes) or "scalar".
NodeAttr(key, value) == [key |-> key, kind |-> "node", value |-> value]

ListAttr(key, value) == [key |-> key, kind |-> "list", value |-> value]

ScalarAttr(key, value) == [key |-> key, kind |-> "scalar", value |-> value]

HasRange(node) == "range" \in DOMAIN node

HasAttr(node, key) ==
    "attrs" \in DOMAIN node /\ \E i \in 1..Len(node.attrs) : node.attrs[i].key = key

\* node[key], for a key the node has.
Attr(node, key) ==
    LET i == CHOOSE j \in 1..Len(node.attrs) : node.attrs[j].key = key
    IN  node.attrs[i].value

\* The values makeNode's loop visits, in order: each truthy node value and
\* each element of each array.
RECURSIVE AttrValues(_)
AttrValues(attrs) ==
    IF Len(attrs) = 0 THEN << >>
    ELSE LET a == attrs[1]
             here == IF a.kind = "list" THEN a.value
                     ELSE IF a.kind = "node" /\ ~IsNull(a.value) THEN <<a.value>>
                     ELSE << >>
         IN  here \o AttrValues(Tail(attrs))

\* Expand the range to contain all the children.
RECURSIVE ExpandRange(_, _)
ExpandRange(range, values) ==
    IF Len(values) = 0 THEN range
    ELSE LET node == values[1]
             next == IF HasRange(node)
                         THEN <<Min(range[1], node.range[1]),
                                Max(range[2], node.range[2])>>
                     ELSE range
         IN  ExpandRange(next, Tail(values))

\* Shrink to be within the size of the source.
ShrinkRange(range) ==
    <<IF range[1] < 0 THEN 0 ELSE range[1],
      IF range[2] > Len(source) THEN Len(source) ELSE range[2]>>

\* The first exception among already converted attribute values, or JSNull.
RECURSIVE FirstThrow(_)
FirstThrow(attrs) ==
    IF Len(attrs) = 0 THEN JSNull
    ELSE LET a == attrs[1]
             bad == IF a.kind = "list"
                        THEN {i \in 1..Len(a.value) : IsThrow(a.value[i])}
                    ELSE {}
         IN  IF a.kind = "node" /\ IsThrow(a.value) THEN a.value
             ELSE IF bad # {} THEN a.value[CHOOSE i \in bad : \A j \in bad : i <= j]
             ELSE FirstThrow(Tail(attrs))

\* makeNode with raw sliced from the span's own offsets, before the range is
\* expanded to the children and shrunk to the source.
makeNodeSliceFirst(type, loc, attrs) ==
    IF loc.ref = 0 THEN [type |-> type, virtual |-> TRUE, attrs |-> attrs]
    ELSE LET start  == mapper(loc.first_line, loc.first_column)
             end    == mapper(loc.last_line, loc.last_column) + 1
             values == AttrValues(attrs)
             range  == ShrinkRange(ExpandRange(<<start, end>>, values))
         IN  IF \E i \in 1..Len(values) : IsNull(values[i])
                 THEN Throw("TypeError: Cannot read property 'range' of null")
             ELSE [type   |-> type,
                   line   |-> loc.first_line + 1,
                   column |-> loc.first_column + 1,
                   range  |-> range,
                   raw    |-> Slice(source, start, end),
                   attrs  |-> attrs]

\* makeNode(type, loc, attrs), on a location and attributes that were
\* evaluated without an exception.  range is <<range[0], range[1]>>.
makeNode(type, loc, attrs) ==
    IF loc.ref = 0 THEN [type |-> type, virtual |-> TRUE, attrs |-> attrs]
    ELSE LET start  == mapper(loc.first_line, loc.first_column)
             end    == mapper(loc.last_line, loc.last_column) + 1
             values == AttrValues(attrs)
             range  == ShrinkRange(ExpandRange(<<start, end>>, values))
         IN  IF \E i \in 1..Len(values) : IsNull(values[i])
                 THEN Throw("TypeError: Cannot read property 'range' of null")
             ELSE [type   |-> type,
                   line   |-> loc.first_line + 1,
                   column |-> loc.first_column + 1,
                   range  |-> range,
                   raw    |-> Slice(source, range[1], range[2]),
                   attrs  |-> attrs]

\* A call makeNode(type, loc, {...}): JavaScript evaluates the arguments
\* first, and an exception thrown by one of them leaves the call unmade.
CallMakeNode(type, loc, attrs) ==
    IF IsThrow(loc) THEN loc
    ELSE IF ~IsNull(FirstThrow(attrs)) THEN FirstThrow(attrs)
    ELSE makeNode(type, loc, attrs)

(***************************************************************************)
(* The tree converter                                                      *)
(***************************************************************************)
\* An upstream node is a record with the fields the converter reads: type
\* (the name of its class), locationData and the children of its class.
Undefined == [undefined |-> TRUE]

type(node) == node.type

\* node[f], or undefined.
Field(node, f) == IF f \in DOMAIN node THEN node[f] ELSE Undefined

\* Truthiness of an optional child.
Present(node, f) == f \in DOMAIN node

\* Strings the converter compares with.
StrThis == <<"t", "h", "i", "s">>

StrConstructor == <<"c", "o", "n", "s", "t", "r", "u", "c", "t", "o", "r">>

StrWhen == <<"w", "h", "e", "n", " ">>

StrBracket == <<"]">>

\* JSON.parse(node.val) of a Bool node.
JSONParseBool(val) ==
    IF val = "true" THEN [bool |-> TRUE]
    ELSE IF val = "false" THEN [bool |-> FALSE]
    ELSE Throw("SyntaxError: JSON.parse")

\* convertOperator's two switch statements: nodeType stays undefined when no
\* case matches.
BinaryOperatorType(operator) ==
    CASE operator = "+" -> "PlusOp"
      [] operator = "-" -> "SubtractOp"
      [] operator = "*" -> "MultiplyOp"
      [] operator = "/" -> "DivideOp"
      [] operator = "%" -> "RemOp"
      [] OTHER -> "undefined"

UnaryOperatorType(operator) ==
    CASE operator = "+" -> "UnaryPlusOp"
      [] operator = "-" -> "UnaryNegateOp"
      [] operator = "typeof" -> "TypeofOp"
      [] OTHER -> "undefined"

\* IsUnlessCondition comparing the contents of the two location objects.
IsUnlessConditionBySpan(node) ==
    /\ node.condition.type = "Op"
    /\ node.condition.operator = "!"
    /\ node.locationData.first_line = node.condition.locationData.first_line
    /\ node.locationData.first_column = node.condition.locationData.first_column
    /\ node.locationData.last_line = node.condition.locationData.last_line
    /\ node.locationData.last_column = node.condition.locationData.last_column

\* case 'If': whether the condition is the negation that upstream made for
\* `unless`, which shares the conditional's location object.
IsUnlessCondition(node) ==
    /\ type(node.condition) = "Op"
    /\ node.condition.operator = "!"
    /\ node.locationData.ref = node.condition.locationData.ref

\* ClassMemberType taking every identifier key for the constructor.
ClassMemberTypeAnyIdentifier(key) ==
    IF key.type = "Identifier" THEN "Constructor"
    ELSE IF key.type = "MemberAccessOp" /\ Attr(key, "expression").type = "This"
        THEN "AssignOp"
    ELSE "ClassProtoAssignOp"

\* case 'Class': the type of the statement made for a member with this
\* converted key.
ClassMemberType(key) ==
    IF HasAttr(key, "data") /\ Attr(key, "data") = [str |-> StrConstructor]
        THEN "Constructor"
    ELSE IF key.type = "MemberAccessOp" /\ Attr(key, "expression").type = "This"
        THEN "AssignOp"
    ELSE "ClassProtoAssignOp"

\* case 'Switch': the nodes whose locations are merged into a case's location.
SwitchCaseAnchors(conditions, body) == <<conditions[1], body>>

\* case 'Parens': the expressions of the body that are converted.
ParensConverted(node) == node.body.expressions[1]

RECURSIVE convert(_, _)
RECURSIVE accessOpForProperty(_, _, _, _)
RECURSIVE foldProperties(_, _, _, _)

\* convertChild(child), called in a convert whose ancestors are depth long.
convertChild(child, depth) == convert(child, depth + 1)

\* nodes.map(convertChild)
convertChildren(nodes, depth) ==
    [i \in 1..Len(nodes) |-> convertChild(nodes[i], depth)]

convertOperator(op, depth) ==
    IF Present(op, "second")
        THEN CallMakeNode(BinaryOperatorType(op.operator), op.locationData,
                 <<NodeAttr("left", convert(op.first, depth + 1)),
                   NodeAttr("right", convert(op.second, depth + 1))>>)
    ELSE CallMakeNode(UnaryOperatorType(op.operator), op.locationData,
             <<NodeAttr("expression", convert(op.first, depth + 1))>>)

accessOpForProperty(expression, prop, loc, depth) ==
    IF IsThrow(expression) THEN expression
    ELSE IF type(prop) = "Access"
        THEN CallMakeNode("MemberAccessOp",
                 mergeLocations(loc, prop.locationData),
                 <<NodeAttr("expression", expression),
                   ScalarAttr("memberName", [str |-> prop.name.value])>>)
    ELSE IF type(prop) = "Index"
        THEN LET expanded == expandLocationRightThrough(
                                 mergeLocations(loc, prop.locationData), StrBracket)
             IN  IF IsThrow(expanded) THEN expanded
                 ELSE CallMakeNode("DynamicMemberAccessOp", expanded,
                          <<NodeAttr("expression", expression),
                            NodeAttr("indexingExpr", convert(prop.index, depth + 2))>>)
    ELSE Throw("unknown property type")

\* node.properties.forEach(prop => value = accessOpForProperty(value, prop, ...))
foldProperties(value, props, loc, depth) ==
    IF Len(props) = 0 \/ IsThrow(value) THEN value
    ELSE foldProperties(accessOpForProperty(value, props[1], loc, depth),
                        Tail(props), loc, depth)

\* case 'Literal'
convertLiteral(node) ==
    IF LooksNumeric(node.value)
        THEN LET data == JSONParseNumber(node.value)
             IN  IF IsThrow(data) THEN data
                 ELSE makeNode(nodeTypeForLiteral(data), node.locationData,
                               <<ScalarAttr("data", data)>>)
    ELSE IF node.value = StrThis THEN makeNode("This", node.locationData, << >>)
    ELSE LET data == parseLiteral(node.value)
         IN  IF "str" \in DOMAIN data
                 THEN makeNode("String", node.locationData, <<ScalarAttr("data", data)>>)
             ELSE makeNode("Identifier", node.locationData,
                           <<ScalarAttr("data", [str |-> node.value])>>)

\* case 'Class': the statement pushed for one property of the body's object
\* literal, and whether it is also pushed to boundMembers.
classMember(property, depth) ==
    LET shorthand == type(property) = "Value"
        key   == IF shorthand THEN convertChild(property, depth)
                 ELSE convertChild(Field(property, "variable"), depth)
        value == IF shorthand THEN key
                 ELSE convertChild(Field(property, "value"), depth)
        stmt  == IF IsThrow(key) THEN key
                 ELSE IF IsThrow(value) THEN value
                 ELSE IF IsNull(key) \/ IsNull(value)
                     THEN Throw("TypeError: Cannot read property of null")
                 ELSE IF ClassMemberType(key) = "Constructor"
                     THEN makeNode("Constructor", property.locationData,
                              <<NodeAttr("expression", value)>>)
                 ELSE makeNode(ClassMemberType(key), property.locationData,
                          <<NodeAttr("assignee", key), NodeAttr("expression", value)>>)
    IN  [stmt  |-> stmt,
         bound |-> ~IsThrow(stmt) /\ value.type = "BoundFunction"]

\* case 'Class': the reduce over the body's expressions; one entry per
\* statement pushed.
RECURSIVE classStatements(_, _)
classStatements(exprs, depth) ==
    IF Len(exprs) = 0 THEN << >>
    ELSE LET expr == exprs[1]
             here == IF type(expr) = "Value" /\ type(expr.base) = "Obj"
                         THEN [i \in 1..Len(expr.base.properties) |->
                                  classMember(expr.base.properties[i], depth)]
                     ELSE <<[stmt |-> convertChild(expr, depth), bound |-> FALSE]>>
         IN  here \o classStatements(Tail(exprs), depth)

\* The elements of a sequence that satisfy a test, in order.
RECURSIVE SelectStmts(_, _)
SelectStmts(entries, onlyBound) ==
    IF Len(entries) = 0 THEN << >>
    ELSE (IF onlyBound /\ ~entries[1].bound THEN << >> ELSE <<entries[1].stmt>>)
         \o SelectStmts(Tail(entries), onlyBound)

\* ctor: the last Constructor statement made, or null.
LastConstructor(stmts) ==
    LET ctors == {i \in 1..Len(stmts) :
                     ~IsThrow(stmts[i]) /\ ~IsNull(stmts[i])
                     /\ stmts[i].type = "Constructor"}
    IN  IF ctors = {} THEN JSNull
        ELSE stmts[CHOOSE i \in ctors : \A j \in ctors : i >= j]

convertClass(node, depth) ==
    LET nameNode == IF Present(node, "variable")
                        THEN convertChild(node.variable, depth) ELSE JSNull
        entries  == classStatements(node.body.expressions, depth)
        stmts    == SelectStmts(entries, FALSE)
        body     == IF ~Present(node, "body") \/ Len(node.body.expressions) = 0
                        THEN JSNull
                    ELSE CallMakeNode("Block", node.body.locationData,
                             <<ListAttr("statements", stmts)>>)
        noBody   == IsNull(body)
    IN  IF IsThrow(nameNode) THEN nameNode
        ELSE CallMakeNode("Class", node.locationData,
                 <<NodeAttr("name", nameNode),
                   NodeAttr("nameAssignee", nameNode),
                   NodeAttr("body", body),
                   ListAttr("boundMembers",
                            IF noBody THEN << >> ELSE SelectStmts(entries, TRUE)),
                   NodeAttr("parent", IF Present(node, "parent")
                                          THEN convertChild(node.parent, depth)
                                      ELSE JSNull),
                   NodeAttr("ctor", IF noBody THEN JSNull
                                    ELSE LastConstructor(stmts))>>)

\* case 'Switch': one element of node.cases, a pair [conditions, body].
convertSwitchCase(case, depth) ==
    LET conditions == IF "array" \in DOMAIN case[1] THEN case[1].array
                      ELSE <<case[1]>>
        body == case[2]
        loc  == expandLocationLeftThrough(
                    locationContainingNodes(SwitchCaseAnchors(conditions, body)),
                    StrWhen)
    IN  CallMakeNode("SwitchCase", loc,
            <<ListAttr("conditions", convertChildren(conditions, depth)),
              NodeAttr("consequent", convertChild(body, depth))>>)

convert(node, depth) ==
    IF depth = 0
        THEN CallMakeNode("Program", node.locationData,
                 <<NodeAttr("body",
                       CallMakeNode("Block", node.locationData,
                           <<ListAttr("statements",
                                      convertChildren(node.expressions, depth))>>))>>)
    ELSE IF ~Present(node, "type")
        THEN Throw("TypeError: Cannot read property 'constructor' of undefined")
    ELSE CASE type(node) = "Value" ->
            foldProperties(convertChild(node.base, depth), node.properties,
                           node.base.locationData, depth)
      [] type(node) = "Literal" -> convertLiteral(node)
      [] type(node) = "Call" ->
            CallMakeNode("FunctionApplication", node.locationData,
                <<NodeAttr("function", convertChild(node.variable, depth)),
                  ListAttr("arguments", convertChildren(node.args, depth))>>)
      [] type(node) = "Op" -> convertOperator(node, depth)
      [] type(node) = "Assign" ->
            CallMakeNode(IF Present(node, "context") /\ node.context = "object"
                             THEN "ObjectInitialiserMember" ELSE "AssignOp",
                node.locationData,
                <<NodeAttr(IF Present(node, "context") /\ node.context = "object"
                               THEN "key" ELSE "assignee",
                           convertChild(node.variable, depth)),
                  NodeAttr("expression", convertChild(node.value, depth))>>)
      [] type(node) = "Obj" ->
            CallMakeNode("ObjectInitialiser", node.locationData,
                <<ListAttr("members",
                    [i \in 1..Len(node.properties) |->
                        LET property == node.properties[i]
                            keyValue == convertChild(property, depth)
                        IN  IF type(property) = "Value"
                                THEN CallMakeNode("ObjectInitialiserMember",
                                         property.locationData,
                                         <<NodeAttr("key", keyValue),
                                           NodeAttr("expression", keyValue)>>)
                            ELSE keyValue])>>)
      [] type(node) = "Arr" ->
            CallMakeNode("ArrayInitialiser", node.locationData,
                <<ListAttr("members", convertChildren(node.objects, depth))>>)
      [] type(node) = "Parens" ->
            IF Len(node.body.expressions) = 0 THEN convertChild(Undefined, depth)
            ELSE convertChild(ParensConverted(node), depth)
      [] type(node) = "If" ->
            LET condition == IF IsUnlessCondition(node)
                                 THEN [node.condition EXCEPT !.locationData = NullLoc]
                             ELSE node.condition
            IN  CallMakeNode("Conditional", node.locationData,
                    <<NodeAttr("condition", convertChild(condition, depth)),
                      NodeAttr("consequent", convertChild(node.body, depth)),
                      NodeAttr("alternate", IF Present(node, "elseBody")
                                                THEN convertChild(node.elseBody, depth)
                                            ELSE JSNull)>>)
      [] type(node) = "Code" ->
            CallMakeNode(IF node.bound THEN "BoundFunction" ELSE "Function",
                node.locationData,
                <<NodeAttr("body", IF Present(node, "body")
                                       THEN convertChild(node.body, depth) ELSE JSNull),
                  ListAttr("parameters", convertChildren(node.params, depth))>>)
      [] type(node) = "Param" ->
            LET param == convertChild(node.name, depth)
            IN  IF IsThrow(param) THEN param
                ELSE IF Present(node, "value")
                    THEN CallMakeNode("DefaultParam", node.locationData,
                             <<NodeAttr("default", convertChild(node.value, depth)),
                               NodeAttr("param", param)>>)
                ELSE param
      [] type(node) = "Block" ->
            IF Len(node.expressions) = 0 THEN JSNull
            ELSE CallMakeNode("Block", node.locationData,
                     <<ListAttr("statements",
                                convertChildren(node.expressions, depth))>>)
      [] type(node) = "Bool" ->
            LET data == JSONParseBool(node.val)
            IN  IF IsThrow(data) THEN data
                ELSE makeNode("Bool", node.locationData, <<ScalarAttr("data", data)>>)
      [] type(node) = "Null" -> makeNode("Null", node.locationData, << >>)
      [] type(node) = "While" ->
            CallMakeNode("While",
                locationContainingNodes(<<node, node.condition, node.body>>),
                <<NodeAttr("condition", convertChild(node.condition, depth)),
                  NodeAttr("body", convertChild(node.body, depth))>>)
      [] type(node) = "Class" -> convertClass(node, depth)
      [] type(node) = "Switch" ->
            CallMakeNode("Switch", node.locationData,
                <<NodeAttr("expression", convertChild(node.subject, depth)),
                  ListAttr("cases",
                      [i \in 1..Len(node.cases) |->
                          convertSwitchCase(node.cases[i], depth)]),
                  NodeAttr("alternate", IF Present(node, "otherwise")
                                            THEN convertChild(node.otherwise, depth)
                                        ELSE JSNull)>>)
      [] OTHER -> Throw("unknown node type")

(***************************************************************************)
(* parse                                                                   *)
(***************************************************************************)
\* The Program returned for an empty source.
EmptyProgram ==
    [type |-> "Program", line |-> 1, column |-> 1, raw |-> source,
     range |-> <<0, 0>>, attrs |-> <<NodeAttr("body", JSNull)>>]

\* parse(source), csParse(source) being the upstream tree.
parse == IF Len(source) = 0 THEN EmptyProgram ELSE convert(upstream, 0)

(***************************************************************************)
(* Upstream trees                                                          *)
(***************************************************************************)
Loc(ref, span) ==
    [ref |-> ref, first_line |-> span[1][1], first_column |-> span[1][2],
     last_line |-> span[2][1], last_column |-> span[2][2]]

\* The span of columns c1..c2 of line l.
OnLine(l, c1, c2) == <<<<l, c1>>, <<l, c2>>>>

\* The length of line l of s, its line break left out.
LineLength(s, l) ==
    LET offs == LineOffsets(s)
    IN  IF l + 1 < Len(offs) THEN offs[l + 2] - offs[l + 1] - 1
        ELSE Len(s) - offs[l + 1]

\* The positions an upstream span may name: a column of a line of s, or up
\* to MaxOverrun columns past its end.
Positions(s) ==
    {<<l, c>> \in (0..(Len(LineOffsets(s)) - 1)) \X (0..(Len(s) + MaxOverrun)) :
        c <= LineLength(s, l) + MaxOverrun}

Before(p, q) == p[1] < q[1] \/ (p[1] = q[1] /\ p[2] <= q[2])

Spans(s) == {sp \in Positions(s) \X Positions(s) : Before(sp[1], sp[2])}

\* The spans of one character.
Points(s) == {<<p, p>> : p \in Positions(s)}

Literal(value, loc) == [type |-> "Literal", value |-> value, locationData |-> loc]

Value(base, properties) ==
    [type |-> "Value", base |-> base, properties |-> properties,
     locationData |-> base.locationData]

\* An identifier or literal token as upstream gives it: a Value of a Literal.
Token(value, loc) == Value(Literal(value, loc), << >>)

Block(expressions, loc) ==
    [type |-> "Block", expressions |-> expressions, locationData |-> loc]

UnaryOp(operator, first, loc) ==
    [type |-> "Op", operator |-> operator, first |-> first, locationData |-> loc]

BinaryOp(operator, first, second, loc) ==
    [type |-> "Op", operator |-> operator, first |-> first, second |-> second,
     locationData |-> loc]

If(condition, body, loc) ==
    [type |-> "If", condition |-> condition, body |-> body, locationData |-> loc]

Assign(variable, value, loc) ==
    [type |-> "Assign", variable |-> variable, value |-> value, locationData |-> loc]

ObjAssign(variable, value, loc) ==
    [type |-> "Assign", context |-> "object", variable |-> variable,
     value |-> value, locationData |-> loc]

Obj(properties, loc) ==
    [type |-> "Obj", properties |-> properties, locationData |-> loc]

Code(bound, params, body, loc) ==
    [type |-> "Code", bound |-> bound, params |-> params, body |-> body,
     locationData |-> loc]

Access(name, loc) ==
    [type |-> "Access", name |-> [value |-> name], locationData |-> loc]

Index(index, loc) == [type |-> "Index", index |-> index, locationData |-> loc]

Parens(expressions, loc) ==
    [type |-> "Parens", body |-> Block(expressions, loc), locationData |-> loc]

\* A node of a class the converter has no case for.
Unknown(loc) == [type |-> "For", locationData |-> loc]

\* The span of all of s.
Whole(s) ==
    LET last == Len(LineOffsets(s)) - 1
    IN  <<<<0, 0>>, <<last, LineLength(s, last) - 1>>>>

(***************************************************************************)
(* The inputs: a source and the tree upstream gives for it.  In each       *)
(* family the spans written sp, sq are drawn from the spans of the source; *)
(* the others are the spans of the tokens in the text.                     *)
(***************************************************************************)
Chr(c) == <<c>>

Input(src, tree) == [src |-> src, tree |-> tree]

\* Two statements: the span of the root and of the first statement vary.
SrcTwoLines ==
    <<"a", "\n", "b">>

RootInput(sp, sq) ==
    Input(SrcTwoLines,
          Block(<<Token(Chr("a"), Loc(2, sq)),
                  Token(Chr("b"), Loc(3, OnLine(1, 0, 0)))>>, Loc(1, sp)))

\* Operators: the text of an operator symbol, and the symbols upstream has.
OperatorText(operator) ==
    CASE operator = "typeof" -> <<"t", "y", "p", "e", "o", "f", " ">>
      [] operator = "&&" -> <<"&", "&">>
      [] OTHER -> <<operator>>

BinaryOperators == {"+", "-", "*", "/", "%", "&&"}

UnaryOperators == {"+", "-", "typeof", "!"}

BinarySource(operator) == Chr("a") \o OperatorText(operator) \o Chr("b")

UnarySource(operator) == OperatorText(operator) \o Chr("a")

\* a <op> b: the span of the operator node and of its first operand vary.
BinaryInput(operator, sp, sq) ==
    LET src == BinarySource(operator)
        end == Len(src) - 1
    IN  Input(src,
              Block(<<BinaryOp(operator,
                               Token(Chr("a"), Loc(3, sq)),
                               Token(Chr("b"), Loc(4, OnLine(0, end, end))),
                               Loc(2, sp))>>,
                    Loc(1, Whole(src))))

\* <op> a: the span of the operator node and of its operand vary.
UnaryInput(operator, sp, sq) ==
    LET src == UnarySource(operator)
    IN  Input(src,
              Block(<<UnaryOp(operator, Token(Chr("a"), Loc(3, sq)), Loc(2, sp))>>,
                    Loc(1, Whole(src))))

\* y unless x: upstream makes the negation and gives it the location object
\* of the conditional.  The span of the conditional and of x vary.
SrcUnless ==
    <<"y", " ", "u", "n", "l", "e", "s", "s", " ", "x">>

UnlessInput(sp, sq) ==
    Input(SrcUnless,
          Block(<<If(UnaryOp("!", Token(Chr("x"), Loc(5, sq)), Loc(2, sp)),
                     Block(<<Token(Chr("y"), Loc(4, OnLine(0, 0, 0)))>>,
                           Loc(3, OnLine(0, 0, 0))),
                     Loc(2, sp))>>,
                Loc(1, Whole(SrcUnless))))

\* y if !x: the negation is written in the source and has a location object
\* of its own.
SrcIfNot ==
    <<"y", " ", "i", "f", " ", "!", "x">>

\* The span of the conditional and of the negation vary.
IfNotInput(sp, sq) ==
    Input(SrcIfNot,
          Block(<<If(UnaryOp("!", Token(Chr("x"), Loc(5, OnLine(0, 6, 6))),
                             Loc(6, sq)),
                     Block(<<Token(Chr("y"), Loc(4, OnLine(0, 0, 0)))>>,
                           Loc(3, OnLine(0, 0, 0))),
                     Loc(2, sp))>>,
                Loc(1, Whole(SrcIfNot))))

\* The negation's own location object has the contents of the conditional's;
\* their span and the span of x vary.
IfNotSameSpanInput(sp, sq) ==
    Input(SrcIfNot,
          Block(<<If(UnaryOp("!", Token(Chr("x"), Loc(5, sq)), Loc(6, sp)),
                     Block(<<Token(Chr("y"), Loc(4, OnLine(0, 0, 0)))>>,
                           Loc(3, OnLine(0, 0, 0))),
                     Loc(2, sp))>>,
                Loc(1, Whole(SrcIfNot))))

\* {a}: a shorthand member.  The span of the object and of a vary.
SrcShorthand ==
    <<"{", "a", "}">>

ShorthandInput(sp, sq) ==
    Input(SrcShorthand,
          Block(<<Value(Obj(<<Token(Chr("a"), Loc(3, sq))>>, Loc(2, sp)), << >>)>>,
                Loc(1, Whole(SrcShorthand))))

\* A switch with two cases, the second with two conditions.
SrcSwitch ==
    <<"s", "w", "i", "t", "c", "h", " ", "x", "\n", " ", "w", "h", "e",
      "n", " ", "a", " ", "t", "h", "e", "n", " ", "y", "\n", " ", "w",
      "h", "e", "n", " ", "b", ",", "c", " ", "t", "h", "e", "n", " ", "z">>

Switch(subject, cases, loc) ==
    [type |-> "Switch", subject |-> subject, cases |-> cases, locationData |-> loc]

FirstCase ==
    <<Token(Chr("a"), Loc(3, OnLine(1, 6, 6))),
      Block(<<Token(Chr("y"), Loc(5, OnLine(1, 13, 13)))>>, Loc(4, OnLine(1, 13, 13)))>>

\* The one-character spans of the two conditions of the second case vary.
SwitchInput(sp, sq) ==
    Input(SrcSwitch,
          Block(<<Switch(Token(Chr("x"), Loc(2, OnLine(0, 7, 7))),
                         <<FirstCase,
                           <<[array |-> <<Token(Chr("b"), Loc(6, sp)),
                                          Token(Chr("c"), Loc(7, sq))>>],
                             Block(<<Token(Chr("z"), Loc(9, OnLine(2, 15, 15)))>>,
                                   Loc(8, OnLine(2, 15, 15)))>>>>,
                         Loc(10, Whole(SrcSwitch)))>>,
                Loc(1, Whole(SrcSwitch))))

\* The second case has one condition, which upstream gives bare; its span
\* and the span of the consequent vary.
SwitchBareInput(sp, sq) ==
    Input(SrcSwitch,
          Block(<<Switch(Token(Chr("x"), Loc(2, OnLine(0, 7, 7))),
                         <<FirstCase,
                           <<Token(Chr("b"), Loc(6, sp)),
                             Block(<<Token(Chr("z"), Loc(9, sq))>>, Loc(8, sq))>>>>,
                         Loc(10, Whole(SrcSwitch)))>>,
                Loc(1, Whole(SrcSwitch))))

\* A case whose keyword is followed by a tab: the source has no "when ".
SrcSwitchTab ==
    <<"s", "w", "i", "t", "c", "h", " ", "x", "\n", " ", "w", "h", "e",
      "n", "\t", "a", " ", "t", "h", "e", "n", " ", "y">>

SwitchTabInput(sp) ==
    Input(SrcSwitchTab,
          Block(<<Switch(Token(Chr("x"), Loc(2, OnLine(0, 7, 7))),
                         <<<<Token(Chr("a"), Loc(3, sp)),
                             Block(<<Token(Chr("y"), Loc(5, OnLine(1, 13, 13)))>>,
                                   Loc(4, OnLine(1, 13, 13)))>>>>,
                         Loc(6, Whole(SrcSwitchTab)))>>,
                Loc(1, Whole(SrcSwitchTab))))

\* Classes: class A, with one line per member of its body.  A member is a
\* key and a value, or a shorthand.
StrClassA == <<"c", "l", "a", "s", "s", " ", "A">>

KeyKinds == {"constructor", "'constructor'", "b", "@c"}

ValueKinds == {"->", "=>", "1"}

MemberKinds ==
    {[key |-> k, value |-> v] : k \in KeyKinds, v \in ValueKinds}
        \cup {[key |-> k, value |-> "shorthand"] : k \in {"constructor", "b"}}

KeyText(k) ==
    CASE k = "constructor" -> StrConstructor
      [] k = "'constructor'" -> Chr("'") \o StrConstructor \o Chr("'")
      [] k = "b" -> Chr("b")
      [] k = "@c" -> <<"@", "c">>

ValueText(v) ==
    CASE v = "->" -> <<"-", ">">>
      [] v = "=>" -> <<"=", ">">>
      [] v = "1" -> Chr("1")

MemberText(m) ==
    IF m.value = "shorthand" THEN KeyText(m.key)
    ELSE KeyText(m.key) \o <<":", " ">> \o ValueText(m.value)

RECURSIVE ClassSource(_)
ClassSource(members) ==
    IF Len(members) = 0 THEN StrClassA
    ELSE ClassSource(SubSeq(members, 1, Len(members) - 1))
             \o <<"\n", " ", " ">> \o MemberText(members[Len(members)])

\* The member on line i, its tokens at their columns.
MemberNode(m, i) ==
    LET klen  == Len(KeyText(m.key))
        vcol  == 2 + klen + 2
        vlen  == Len(ValueText(m.value))
        key   == IF m.key = "@c"
                     THEN Value(Literal(StrThis, Loc(10 * i + 1, OnLine(i, 2, 2))),
                                <<Access(Chr("c"), Loc(10 * i + 2, OnLine(i, 3, 3)))>>)
                 ELSE Token(KeyText(m.key), Loc(10 * i + 1, OnLine(i, 2, 2 + klen - 1)))
        vloc  == Loc(10 * i + 3, OnLine(i, vcol, vcol + vlen - 1))
        value == IF m.value = "1" THEN Token(Chr("1"), vloc)
                 ELSE Code(m.value = "=>", << >>, Block(<< >>, vloc), vloc)
    IN  IF m.value = "shorthand" THEN key
        ELSE ObjAssign(key, value, Loc(10 * i + 4, OnLine(i, 2, vcol + vlen - 1)))

Class(variable, body, loc) ==
    [type |-> "Class", variable |-> variable, body |-> body, locationData |-> loc]

ClassInput(members) ==
    LET src  == ClassSource(members)
        n    == Len(members)
        bloc == Loc(3, <<<<1, 2>>, Whole(src)[2]>>)
        obj  == Value(Obj([i \in 1..n |-> MemberNode(members[i], i)], bloc), << >>)
    IN  Input(src,
              Block(<<Class(Token(Chr("A"), Loc(2, OnLine(0, 6, 6))),
                            Block(IF n = 0 THEN << >> ELSE <<obj>>, bloc),
                            Loc(4, Whole(src)))>>,
                    Loc(1, Whole(src))))

MemberLists == UNION {[1..n -> MemberKinds] : n \in 0..MaxMembers}

\* Programs with a node of a class the converter has no case for (a `for`
\* comprehension), one per place a node can stand in.
SrcForStatement ==
    <<"a", " ", "f", "o", "r", " ", "a", " ", "i", "n", " ", "b">>

SrcForOperand ==
    <<"-", "(", "a", " ", "f", "o", "r", " ", "a", " ", "i", "n", " ", "b",
      ")">>

SrcSliceAccessor ==
    <<"a", "[", "1", ".", ".", "2", "]">>

SrcForParameter ==
    <<"(", "a", " ", "=", " ", "b", " ", "f", "o", "r", " ", "b", " ", "i",
      "n", " ", "c", ")", " ", "-", ">">>

SrcForMember ==
    <<"c", "l", "a", "s", "s", " ", "A", "\n", " ", " ", "b", ":", " ",
      "(", "c", " ", "f", "o", "r", " ", "c", " ", "i", "n", " ", "d", ")">>

SrcForArgument ==
    <<"f", "(", "a", " ", "f", "o", "r", " ", "a", " ", "i", "n", " ", "b",
      ")">>

SrcParensFirst ==
    <<"(", "a", " ", "f", "o", "r", " ", "a", " ", "i", "n", " ", "b", ";",
      " ", "c", ")">>

SrcParensSecond ==
    <<"(", "a", ";", " ", "b", " ", "f", "o", "r", " ", "b", " ", "i", "n",
      " ", "c", ")">>

SrcParensBoth ==
    <<"(", "a", ";", " ", "b", ")">>

UnknownInputs ==
    {Input(SrcForStatement,
           Block(<<Unknown(Loc(2, Whole(SrcForStatement)))>>,
                 Loc(1, Whole(SrcForStatement)))),
     Input(SrcForOperand,
           Block(<<UnaryOp("-",
                           Value(Parens(<<Unknown(Loc(4, OnLine(0, 2, 13)))>>,
                                        Loc(3, OnLine(0, 1, 14))), << >>),
                           Loc(2, Whole(SrcForOperand)))>>,
                 Loc(1, Whole(SrcForOperand)))),
     Input(SrcSliceAccessor,
           Block(<<Value(Literal(Chr("a"), Loc(2, OnLine(0, 0, 0))),
                         <<[type |-> "Slice", locationData |-> Loc(3, OnLine(0, 1, 6))]>>)>>,
                 Loc(1, Whole(SrcSliceAccessor)))),
     Input(SrcForParameter,
           Block(<<Code(FALSE,
                        <<[type |-> "Param",
                           name |-> Token(Chr("a"), Loc(4, OnLine(0, 1, 1))),
                           value |-> Unknown(Loc(5, OnLine(0, 5, 16))),
                           locationData |-> Loc(3, OnLine(0, 1, 16))]>>,
                        Block(<< >>, Loc(6, OnLine(0, 19, 20))),
                        Loc(2, Whole(SrcForParameter)))>>,
                 Loc(1, Whole(SrcForParameter)))),
     Input(SrcForMember,
           Block(<<Class(Token(Chr("A"), Loc(2, OnLine(0, 6, 6))),
                         Block(<<Value(Obj(<<ObjAssign(
                                                Token(Chr("b"), Loc(6, OnLine(1, 2, 2))),
                                                Value(Parens(<<Unknown(Loc(8, OnLine(1, 6, 17)))>>,
                                                             Loc(7, OnLine(1, 5, 18))), << >>),
                                                Loc(5, OnLine(1, 2, 18)))>>,
                                           Loc(4, OnLine(1, 2, 18))), << >>)>>,
                               Loc(3, OnLine(1, 2, 18))),
                         Loc(9, Whole(SrcForMember)))>>,
                 Loc(1, Whole(SrcForMember)))),
     Input(SrcForArgument,
           Block(<<[type |-> "Call",
                    variable |-> Token(Chr("f"), Loc(3, OnLine(0, 0, 0))),
                    args |-> <<Unknown(Loc(4, OnLine(0, 2, 13)))>>,
                    locationData |-> Loc(2, Whole(SrcForArgument))]>>,
                 Loc(1, Whole(SrcForArgument)))),
     Input(SrcParensFirst,
           Block(<<Value(Parens(<<Unknown(Loc(3, OnLine(0, 1, 12))),
                                  Token(Chr("c"), Loc(4, OnLine(0, 15, 15)))>>,
                                Loc(2, Whole(SrcParensFirst))), << >>)>>,
                 Loc(1, Whole(SrcParensFirst)))),
     Input(SrcParensSecond,
           Block(<<Value(Parens(<<Token(Chr("a"), Loc(3, OnLine(0, 1, 1))),
                                  Unknown(Loc(4, OnLine(0, 4, 15)))>>,
                                Loc(2, Whole(SrcParensSecond))), << >>)>>,
                 Loc(1, Whole(SrcParensSecond)))),
     Input(SrcParensBoth,
           Block(<<Value(Parens(<<Token(Chr("a"), Loc(3, OnLine(0, 1, 1))),
                                  Token(Chr("b"), Loc(4, OnLine(0, 4, 4)))>>,
                                Loc(2, Whole(SrcParensBoth))), << >>)>>,
                 Loc(1, Whole(SrcParensBoth))))}

\* Programs of the other node classes, with the spans of their tokens.
SrcCall ==
    <<"f", "(", "a", ",", " ", "[", "b", "]", ")">>

SrcFunction ==
    <<"(", "a", " ", "=", " ", "1", ".", "5", ")", " ", "-", ">", " ", "a">>

SrcWhile ==
    <<"w", "h", "i", "l", "e", " ", "a", "\n", " ", " ", "b">>

SrcIfElse ==
    <<"i", "f", " ", "a", " ", "t", "h", "e", "n", " ", "t", "r", "u", "e",
      " ", "e", "l", "s", "e", " ", "n", "u", "l", "l">>

SrcAccess ==
    <<"a", ".", "b", "[", "c", "]">>

SrcAssign ==
    <<"x", " ", "=", " ", "'", "s", "'">>

SrcSubclass ==
    <<"c", "l", "a", "s", "s", " ", "e", "x", "t", "e", "n", "d", "s", " ",
      "B", "\n", " ", " ", "a">>

SrcObject ==
    <<"{", "a", ":", " ", "1", "}">>

SrcOpenIndex ==
    <<"a", "[", "b">>

SrcHex ==
    <<"0", "x", "1", "0">>

OtherInputs ==
    {Input(SrcCall,
           Block(<<[type |-> "Call",
                    variable |-> Token(Chr("f"), Loc(3, OnLine(0, 0, 0))),
                    args |-> <<Token(Chr("a"), Loc(4, OnLine(0, 2, 2))),
                               Value([type |-> "Arr",
                                      objects |-> <<Token(Chr("b"), Loc(6, OnLine(0, 6, 6)))>>,
                                      locationData |-> Loc(5, OnLine(0, 5, 7))], << >>)>>,
                    locationData |-> Loc(2, Whole(SrcCall))]>>,
                 Loc(1, Whole(SrcCall)))),
     Input(SrcFunction,
           Block(<<Code(FALSE,
                        <<[type |-> "Param",
                           name |-> Token(Chr("a"), Loc(4, OnLine(0, 1, 1))),
                           value |-> Token(<<"1", ".", "5">>, Loc(5, OnLine(0, 5, 7))),
                           locationData |-> Loc(3, OnLine(0, 1, 7))]>>,
                        Block(<<Token(Chr("a"), Loc(7, OnLine(0, 13, 13)))>>,
                              Loc(6, OnLine(0, 13, 13))),
                        Loc(2, Whole(SrcFunction)))>>,
                 Loc(1, Whole(SrcFunction)))),
     Input(SrcWhile,
           Block(<<[type |-> "While",
                    condition |-> Token(Chr("a"), Loc(3, OnLine(0, 6, 6))),
                    body |-> Block(<<Token(Chr("b"), Loc(5, OnLine(1, 2, 2)))>>,
                                   Loc(4, OnLine(1, 2, 2))),
                    locationData |-> Loc(2, OnLine(0, 0, 6))]>>,
                 Loc(1, Whole(SrcWhile)))),
     Input(SrcIfElse,
           Block(<<[type |-> "If",
                    condition |-> Token(Chr("a"), Loc(3, OnLine(0, 3, 3))),
                    body |-> Block(<<[type |-> "Bool", val |-> "true",
                                      locationData |-> Loc(5, OnLine(0, 10, 13))]>>,
                                   Loc(4, OnLine(0, 10, 13))),
                    elseBody |-> Block(<<[type |-> "Null",
                                          locationData |-> Loc(7, OnLine(0, 20, 23))]>>,
                                       Loc(6, OnLine(0, 20, 23))),
                    locationData |-> Loc(2, OnLine(0, 0, 13))]>>,
                 Loc(1, Whole(SrcIfElse)))),
     Input(SrcAccess,
           Block(<<Value(Literal(Chr("a"), Loc(2, OnLine(0, 0, 0))),
                         <<Access(Chr("b"), Loc(3, OnLine(0, 1, 2))),
                           Index(Token(Chr("c"), Loc(5, OnLine(0, 4, 4))),
                                 Loc(4, OnLine(0, 3, 4)))>>)>>,
                 Loc(1, Whole(SrcAccess)))),
     Input(SrcAssign,
           Block(<<Assign(Token(Chr("x"), Loc(3, OnLine(0, 0, 0))),
                          Token(<<"'", "s", "'">>, Loc(4, OnLine(0, 4, 6))),
                          Loc(2, Whole(SrcAssign)))>>,
                 Loc(1, Whole(SrcAssign)))),
     Input(SrcSubclass,
           Block(<<[type |-> "Class",
                    parent |-> Token(Chr("B"), Loc(3, OnLine(0, 14, 14))),
                    body |-> Block(<<Token(Chr("a"), Loc(5, OnLine(1, 2, 2)))>>,
                                   Loc(4, OnLine(1, 2, 2))),
                    locationData |-> Loc(2, Whole(SrcSubclass))]>>,
                 Loc(1, Whole(SrcSubclass)))),
     Input(SrcObject,
           Block(<<Value(Obj(<<ObjAssign(Token(Chr("a"), Loc(4, OnLine(0, 1, 1))),
                                         Token(Chr("1"), Loc(5, OnLine(0, 4, 4))),
                                         Loc(3, OnLine(0, 1, 4)))>>,
                             Loc(2, Whole(SrcObject))), << >>)>>,
                 Loc(1, Whole(SrcObject)))),
     Input(SrcOpenIndex,
           Block(<<Value(Literal(Chr("a"), Loc(2, OnLine(0, 0, 0))),
                         <<Index(Token(Chr("b"), Loc(4, OnLine(0, 2, 2))),
                                 Loc(3, OnLine(0, 1, 2)))>>)>>,
                 Loc(1, Whole(SrcOpenIndex)))),
     Input(SrcHex,
           Block(<<Token(<<"0", "x", "1", "0">>, Loc(2, Whole(SrcHex)))>>,
                 Loc(1, Whole(SrcHex)))),
     Input(<< >>, Block(<< >>, NullLoc))}

(***************************************************************************)
(* The state machine                                                       *)
(***************************************************************************)
\* parse is called on this input.
Given(input) == source = input.src /\ upstream = input.tree

\* out before parse has run, and after it threw.
NoTree == [none |-> TRUE]

Init ==
    /\ pc = "ready"
    /\ out = NoTree
    /\ \/ \E sp, sq \in Spans(SrcTwoLines) : Given(RootInput(sp, sq))
       \/ \E operator \in BinaryOperators :
             \E sp, sq \in Spans(BinarySource(operator)) :
                Given(BinaryInput(operator, sp, sq))
       \/ \E operator \in UnaryOperators :
             \E sp, sq \in Spans(UnarySource(operator)) :
                Given(UnaryInput(operator, sp, sq))
       \/ \E sp, sq \in Spans(SrcUnless) : Given(UnlessInput(sp, sq))
       \/ \E sp, sq \in Spans(SrcIfNot) : Given(IfNotInput(sp, sq))
       \/ \E sp, sq \in Spans(SrcIfNot) : Given(IfNotSameSpanInput(sp, sq))
       \/ \E sp, sq \in Spans(SrcShorthand) : Given(ShorthandInput(sp, sq))
       \/ \E sp, sq \in Points(SrcSwitch) : Given(SwitchInput(sp, sq))
       \/ \E sp, sq \in Points(SrcSwitch) : Given(SwitchBareInput(sp, sq))
       \/ \E sp \in Points(SrcSwitchTab) : Given(SwitchTabInput(sp))
       \/ \E members \in MemberLists : Given(ClassInput(members))
       \/ \E input \in UnknownInputs \cup OtherInputs : Given(input)

\* parse on an empty source: the body-less Program, upstream not called.
ParseEmpty ==
    /\ pc = "ready"
    /\ Len(source) = 0
    /\ out' = parse
    /\ pc' = "returned"
    /\ UNCHANGED <<source, upstream>>

\* parse on a source that is not empty: the converted tree is returned, or an
\* exception reaches the caller, who gets no tree.
ParseConvert ==
    /\ pc = "ready"
    /\ Len(source) > 0
    /\ LET result == parse
       IN  /\ out' = IF IsThrow(result) THEN NoTree ELSE result
           /\ pc' = IF IsThrow(result) THEN "threw" ELSE "returned"
    /\ UNCHANGED <<source, upstream>>

Next == ParseEmpty \/ ParseConvert

Spec == Init /\ [][Next]_vars

(***************************************************************************)
(* Reading the two trees                                                   *)
(***************************************************************************)
\* The nodes of a converted tree, the root first.  A node that is the value
\* of two attributes is listed under both.
RECURSIVE NodesOf(_)
RECURSIVE NodesOfAll(_)
NodesOf(node) == <<node>> \o NodesOfAll(AttrValues(node.attrs))

NodesOfAll(nodes) ==
    IF Len(nodes) = 0 THEN << >>
    ELSE NodesOf(nodes[1]) \o NodesOfAll(Tail(nodes))

\* The value of an optional child, as a list.
Optional(node, f) == IF f \in DOMAIN node THEN <<node[f]>> ELSE << >>

RECURSIVE SwitchCaseChildren(_)
SwitchCaseChildren(cases) ==
    IF Len(cases) = 0 THEN << >>
    ELSE (IF "array" \in DOMAIN cases[1][1] THEN cases[1][1].array
          ELSE <<cases[1][1]>>)
         \o <<cases[1][2]>> \o SwitchCaseChildren(Tail(cases))

\* The children of an upstream node.
UpstreamChildren(node) ==
    CASE node.type = "Value" -> <<node.base>> \o node.properties
      [] node.type = "Index" -> <<node.index>>
      [] node.type = "Call" -> <<node.variable>> \o node.args
      [] node.type = "Op" -> <<node.first>> \o Optional(node, "second")
      [] node.type = "Assign" -> <<node.variable, node.value>>
      [] node.type = "Obj" -> node.properties
      [] node.type = "Arr" -> node.objects
      [] node.type = "Parens" -> node.body.expressions
      [] node.type = "If" ->
            <<node.condition, node.body>> \o Optional(node, "elseBody")
      [] node.type = "Code" -> node.params \o Optional(node, "body")
      [] node.type = "Param" -> <<node.name>> \o Optional(node, "value")
      [] node.type = "Block" -> node.expressions
      [] node.type = "While" -> <<node.condition, node.body>>
      [] node.type = "Class" ->
            Optional(node, "variable") \o Optional(node, "body")
                \o Optional(node, "parent")
      [] node.type = "Switch" ->
            <<node.subject>> \o SwitchCaseChildren(node.cases)
                \o Optional(node, "otherwise")
      [] OTHER -> << >>

\* The nodes of an upstream tree below its root.
RECURSIVE UpstreamBelow(_)
RECURSIVE UpstreamBelowAll(_)
UpstreamBelow(node) == UpstreamBelowAll(UpstreamChildren(node))

UpstreamBelowAll(nodes) ==
    IF Len(nodes) = 0 THEN << >>
    ELSE <<nodes[1]>> \o UpstreamBelow(nodes[1]) \o UpstreamBelowAll(Tail(nodes))

\* The first statement of the program, upstream and converted.
UpstreamStatement == upstream.expressions[1]

Statement == Attr(Attr(out, "body"), "statements")[1]

Returned == pc = "returned"

(***************************************************************************)
(* Properties                                                              *)
(***************************************************************************)
\* C1 (containment): in a returned tree, the range of every node that has one
\* contains the range of each of its descendants that has one, also of those
\* below a virtual node.
Contains(node, inner) ==
    node.range[1] <= inner.range[1] /\ inner.range[2] <= node.range[2]

Containment ==
    Returned =>
        \A i \in 1..Len(NodesOf(out)) :
            LET node == NodesOf(out)[i]
            IN  HasRange(node) =>
                    \A j \in 1..Len(NodesOf(node)) :
                        LET inner == NodesOf(node)[j]
                        IN  HasRange(inner) => Contains(node, inner)

\* C2 (range well-formedness): every node of a returned tree that has a range
\* has 0 <= range[0] <= range[1] <= source.length.
RangeWellFormed ==
    Returned =>
        \A i \in 1..Len(NodesOf(out)) :
            LET node == NodesOf(out)[i]
            IN  HasRange(node) =>
                    /\ 0 <= node.range[1]
                    /\ node.range[1] <= node.range[2]
                    /\ node.range[2] <= Len(source)

\* C3 (raw-slice exactness): every node of a returned tree that has a range
\* has raw = source.slice(range[0], range[1]).
RawSliceExact ==
    Returned =>
        \A i \in 1..Len(NodesOf(out)) :
            LET node == NodesOf(out)[i]
            IN  HasRange(node) =>
                    node.raw = Slice(source, node.range[1], node.range[2])

\* The start offset of the span a node was made with.
AnchorStart(node) == mapper(node.line - 1, node.column - 1)

\* A returned object literal whose range was widened to the left by its
\* shorthand member, the member's key and expression being the same node with
\* a raw text that is not empty.
RawSliceWitness ==
    /\ Returned
    /\ Len(source) > 0
    /\ Statement.type = "ObjectInitialiser"
    /\ Statement.range[1] < AnchorStart(Statement)
    /\ LET member == Attr(Statement, "members")[1]
       IN  /\ Attr(member, "key") = Attr(member, "expression")
           /\ Len(Attr(member, "key").raw) > 0
           /\ Len(Statement.raw) > Len(member.raw)

\* C4 (root coverage): the Program returned for a source that is not empty
\* has the range [0, source.length].
RootCoverage ==
    (Returned /\ Len(source) > 0) => out.range = <<0, Len(source)>>

\* The upstream classes convert has a case for, and the two accessOpForProperty
\* has.
DispatchTypes ==
    {"Value", "Literal", "Call", "Op", "Assign", "Obj", "Arr", "Parens", "If",
     "Code", "Param", "Block", "Bool", "Null", "While", "Class", "Switch",
     "Access", "Index"}

\* C5 (no silent skip): when a tree is returned, every node of the upstream
\* tree is of a class in the dispatch table.
NoSilentSkip ==
    Returned =>
        \A i \in 1..Len(UpstreamBelow(upstream)) :
            UpstreamBelow(upstream)[i].type \in DispatchTypes

OperatorTypes ==
    {"PlusOp", "SubtractOp", "MultiplyOp", "DivideOp", "RemOp",
     "UnaryPlusOp", "UnaryNegateOp", "TypeofOp"}

\* Whether convertOperator has a case for this operator node.
RecognizedOperator(op) ==
    IF "second" \in DOMAIN op THEN op.operator \in {"+", "-", "*", "/", "%"}
    ELSE op.operator \in {"+", "-", "typeof"}

\* C6 (an unrecognized operator is an error): when the program's statement is
\* an operator node and a tree is returned, the operator is a recognized one
\* and the node made for it has one of the eight operator types.
UnrecognizedOperatorThrows ==
    (Returned /\ Len(source) > 0 /\ UpstreamStatement.type = "Op") =>
        /\ RecognizedOperator(UpstreamStatement)
        /\ Statement.type \in OperatorTypes

\* Whether two location objects have the same contents.
SameSpan(a, b) ==
    /\ a.first_line = b.first_line
    /\ a.first_column = b.first_column
    /\ a.last_line = b.last_line
    /\ a.last_column = b.last_column

\* The program's statement is a conditional whose condition is a logical not,
\* and a tree is returned.
NegatedConditional ==
    /\ Returned
    /\ Len(source) > 0
    /\ UpstreamStatement.type = "If"
    /\ UpstreamStatement.condition.type = "Op"
    /\ UpstreamStatement.condition.operator = "!"

IsVirtual(node) ==
    /\ "virtual" \in DOMAIN node
    /\ node.virtual
    /\ DOMAIN node \cap {"line", "column", "range", "raw"} = {}

\* C7 as claimed (unless by span): the converted condition is virtual when the
\* negation's span equals the conditional's, and has a range when it differs.
UnlessBySpan ==
    NegatedConditional =>
        LET condition == Attr(Statement, "condition")
        IN  IF SameSpan(UpstreamStatement.locationData,
                        UpstreamStatement.condition.locationData)
                THEN IsVirtual(condition)
            ELSE "virtual" \notin DOMAIN condition /\ HasRange(condition)

\* C7 as amended (unless by identity): the converted condition is virtual when
\* the negation's location object is the conditional's own, and has a range
\* when it is another object, whatever its contents.
UnlessByIdentity ==
    NegatedConditional =>
        LET condition == Attr(Statement, "condition")
        IN  IF UpstreamStatement.locationData.ref
                   = UpstreamStatement.condition.locationData.ref
                THEN IsVirtual(condition)
            ELSE "virtual" \notin DOMAIN condition /\ HasRange(condition)

\* A returned conditional whose negation shared its location object: its
\* condition is virtual and the negated expression below it has a range.
UnlessWitness ==
    /\ NegatedConditional
    /\ UpstreamStatement.locationData.ref
           = UpstreamStatement.condition.locationData.ref
    /\ IsVirtual(Attr(Statement, "condition"))
    /\ HasRange(Attr(Attr(Statement, "condition"), "expression"))

\* The conditions of one element of an upstream switch's cases, as a list.
CaseConditions(case) ==
    IF "array" \in DOMAIN case[1] THEN case[1].array ELSE <<case[1]>>

\* The offset at which the span of an upstream node starts.
StartOffset(node) ==
    mapper(node.locationData.first_line, node.locationData.first_column)

\* The earliest start among the spans of a case's conditions and consequent.
EarliestStart(case) ==
    LET nodes  == CaseConditions(case) \o <<case[2]>>
        starts == {StartOffset(nodes[i]) : i \in 1..Len(nodes)}
    IN  CHOOSE o \in starts : \A other \in starts : o <= other

\* C8 (switch case anchor): when a tree is returned for a switch, every case
\* has a "when " at or before the earliest start among its conditions and its
\* consequent, and the SwitchCase made for it starts at the nearest one, so
\* that its raw text starts with "when ".
SwitchCaseAnchor ==
    (Returned /\ Len(source) > 0 /\ UpstreamStatement.type = "Switch") =>
        \A i \in 1..Len(UpstreamStatement.cases) :
            LET anchor == LastIndexOf(source, StrWhen,
                                      EarliestStart(UpstreamStatement.cases[i]))
                made   == Attr(Statement, "cases")[i]
            IN  /\ anchor >= 0
                /\ made.range[1] = anchor
                /\ OccursAt(made.raw, StrWhen, 0)

\* Whether a member of a class body is keyed `constructor`: its key is the
\* identifier constructor or a string literal with that text.
KeyedConstructor(property) ==
    LET key == IF property.type = "Value" THEN property ELSE property.variable
    IN  /\ key.type = "Value"
        /\ key.properties = << >>
        /\ key.base.type = "Literal"
        /\ \/ key.base.value = StrConstructor
           \/ \E quote \in {"'", "\""} :
                 key.base.value = <<quote>> \o StrConstructor \o <<quote>>

\* The program's statement is a class whose body is one object literal, and a
\* tree is returned.
ClassOfMembers ==
    /\ Returned
    /\ Len(source) > 0
    /\ UpstreamStatement.type = "Class"
    /\ Len(UpstreamStatement.body.expressions) = 1
    /\ UpstreamStatement.body.expressions[1].type = "Value"
    /\ UpstreamStatement.body.expressions[1].base.type = "Obj"

Members == UpstreamStatement.body.expressions[1].base.properties

BodyStatements == Attr(Attr(Statement, "body"), "statements")

\* C9 (class constructor extraction): the body of the converted class has one
\* statement per member, in member order, and statement i is a Constructor
\* exactly when member i is keyed `constructor`.
ClassConstructorExtraction ==
    ClassOfMembers =>
        /\ Len(BodyStatements) = Len(Members)
        /\ \A i \in 1..Len(Members) :
              /\ BodyStatements[i].line = Members[i].locationData.first_line + 1
              /\ BodyStatements[i].type = "Constructor"
                    <=> KeyedConstructor(Members[i])

\* A returned class of two members, the second of them keyed `constructor`
\* and the first not: the Constructor is the second statement, and ctor.
ClassConstructorWitness ==
    /\ ClassOfMembers
    /\ Len(Members) = 2
    /\ ~KeyedConstructor(Members[1])
    /\ KeyedConstructor(Members[2])
    /\ BodyStatements[1].type # "Constructor"
    /\ BodyStatements[2].type = "Constructor"
    /\ Attr(Statement, "ctor") = BodyStatements[2]

\* C10 (location and range agree): in a returned tree, the line and column of
\* every node that has a range map to its range[0].
LocationAgreesWithRange ==
    Returned =>
        \A i \in 1..Len(NodesOf(out)) :
            LET node == NodesOf(out)[i]
            IN  HasRange(node) => AnchorStart(node) = node.range[1]

=============================================================================
